---- MODULE Spec2Model ----
(***************************************************************************)
(* Model of tensorflow_probability/python/internal/nest_util.py:           *)
(* broadcast_structure, expand_as_args / call_fn, the recursive conversion *)
(* engine _nested_convert_to_tensor and convert_to_nested_tensor.          *)
(*                                                                         *)
(* A Python value is a record                                              *)
(*   [kind, val, fl, fa, conv, keys, kids]                                 *)
(* kind : "scalar" (int, None, a DType, an opaque object: not iterable),   *)
(*        "str"    (a collections.Sequence that tf.nest treats as a leaf), *)
(*        "tensor" (tf.Tensor or np.ndarray),                              *)
(*        "list", "dict", "nt" (namedtuple): what tf.nest recurses into;   *)
(* val  : the leaf's payload (for a dict / namedtuple: its key family);    *)
(* fl   : the object has attribute _tfp_nest_expansion_force_leaf;         *)
(* fa   : the object has attribute _tfp_nest_expansion_force_args;         *)
(* conv : what tf.convert_to_tensor does when handed this very object:     *)
(*        "ok", "err" (ValueError / TypeError) or "fatal" (another error); *)
(* keys : dict keys / namedtuple fields, in tf.nest's (sorted) order;      *)
(* kids : the children, in the order of keys (list: positional order).     *)
(***************************************************************************)
EXTENDS Integers, Sequences, FiniteSets, TLC

VARIABLES pc, call, ret, trace

vars == <<pc, call, ret, trace>>

(* ------------------------------ bounds -------------------------------- *)

\* Most nodes (containers and leaves together) of a to_structure.
MaxToNodes == 4

\* Most nodes of a from_structure.
MaxFromNodes == 3

\* Most nodes of the args handed to call_fn.
MaxArgNodes == 3

\* Most nodes of the struct handed to _nested_convert_to_tensor.
MaxStructNodes == 3

\* Most nodes of a dtype / dtype_hint structure of convert_to_nested_tensor.
MaxDtypeNodes == 3

\* Most nodes of the other one of dtype / dtype_hint when both are drawn.
MaxHintNodes == 2

\* Most nodes of the value handed to convert_to_nested_tensor.
MaxValueNodes == 4

(* --------------------------- Python values ---------------------------- *)

NestKinds == {"list", "dict", "nt"}

KeyPool == [a |-> <<"a1", "a2", "a3", "a4", "a5", "a6">>,
            x |-> <<"x1", "x2", "x3", "x4", "x5", "x6">>]

Leaf(k, v, c) ==
  [kind |-> k, val |-> v, fl |-> FALSE, fa |-> FALSE, conv |-> c,
   keys |-> <<>>, kids |-> <<>>]

\* A container without its children; fam is the key family of a dict or a
\* namedtuple type ("a" or "x"), "" for a list.
Header(k, fam, fl, fa, c) ==
  [kind |-> k, val |-> fam, fl |-> fl, fa |-> fa, conv |-> c,
   keys |-> <<>>, kids |-> <<>>]

WithKids(h, f) ==
  [h EXCEPT !.kids = f,
            !.keys = IF h.kind = "list" THEN <<>>
                     ELSE SubSeq(KeyPool[h.val], 1, Len(f))]

RECURSIVE Forest(_, _, _), TreeN(_, _, _)

\* The sequences of trees with m nodes in all.
Forest(m, L, H) ==
  IF m = 0 THEN {<<>>}
  ELSE UNION { { <<t>> \o f : t \in TreeN(j, L, H), f \in Forest(m - j, L, H) }
               : j \in 1..m }

\* The values with exactly n nodes over leaves L and container headers H.
TreeN(n, L, H) ==
  IF n = 1 THEN L \cup { WithKids(h, <<>>) : h \in H }
  ELSE { WithKids(h, f) : h \in H, f \in Forest(n - 1, L, H) }

Trees(n, L, H) == UNION { TreeN(j, L, H) : j \in 1..n }

(* ------------------------------ tf.nest ------------------------------- *)

\* nest.is_nested: lists, tuples, namedtuples and dicts; strings are not, and
\* the _tfp_nest_expansion_* attributes are unknown to tf.nest.
is_nested(s) == s.kind \in NestKinds

RECURSIVE flatten(_)

\* tf.nest.flatten: the leaves, left to right (a dict by sorted key).
flatten(s) ==
  IF is_nested(s)
  THEN LET RECURSIVE cat(_)
           cat(i) == IF i > Len(s.kids) THEN <<>>
                     ELSE flatten(s.kids[i]) \o cat(i + 1)
       IN cat(1)
  ELSE <<s>>

RECURSIVE map_structure_const(_, _)

\* tf.nest.map_structure(lambda _: leaf, structure): the same containers
\* (type(instance) is kept), every leaf replaced.
map_structure_const(leaf, structure) ==
  IF is_nested(structure)
  THEN [structure EXCEPT
          !.kids = [i \in 1..Len(structure.kids) |->
                      map_structure_const(leaf, structure.kids[i])]]
  ELSE leaf

RECURSIVE Shape(_)

\* The leaf-erased skeleton: container kinds, key sets / field order, nesting.
Shape(s) ==
  IF is_nested(s)
  THEN [kind |-> s.kind, keys |-> s.keys,
        kids |-> [i \in 1..Len(s.kids) |-> Shape(s.kids[i])]]
  ELSE [kind |-> "leaf", keys |-> <<>>, kids |-> <<>>]

(* ------------------------ broadcast_structure ------------------------- *)

\* Mutant: the tiling walks from_structure instead of to_structure.
broadcast_structure_maps_source(to_structure, from_structure) ==
  LET from_parts == flatten(from_structure)
  IN IF Len(from_parts) = 1
     THEN map_structure_const(from_parts[1], from_structure)
     ELSE from_structure

\* Mutant: the tiling places from_structure itself, not its single leaf.
broadcast_structure_tiles_whole(to_structure, from_structure) ==
  LET from_parts == flatten(from_structure)
  IN IF Len(from_parts) = 1
     THEN map_structure_const(from_structure, to_structure)
     ELSE from_structure

broadcast_structure(to_structure, from_structure) ==
  LET from_parts == flatten(from_structure)
  IN IF Len(from_parts) = 1
     THEN map_structure_const(from_parts[1], to_structure)
     ELSE from_structure

(* --------------------- expand_as_args and call_fn --------------------- *)

_force_leaf(struct) == struct.fl

_force_expand_as_args(struct) == struct.fa

\* nest._is_namedtuple
_is_namedtuple(x) == x.kind = "nt"

\* isinstance(x, collections.Sequence): list, tuple, namedtuple and str.
IsSequence(x) == x.kind \in {"list", "nt", "str"}

\* isinstance(x, collections.Mapping)
IsMapping(x) == x.kind = "dict"

\* Mutant: the namedtuple exclusion is dropped.
expand_as_args_namedtuple_too(args) ==
  (IsSequence(args) /\ ~_force_leaf(args)) \/ _force_expand_as_args(args)

expand_as_args(args) ==
  (IsSequence(args) /\ ~_is_namedtuple(args) /\ ~_force_leaf(args))
    \/ _force_expand_as_args(args)

_expand_as_kwargs(args) == IsMapping(args) /\ ~_force_leaf(args)

\* Python's iteration protocol, as `*args` uses it: a list or namedtuple
\* yields its elements, a dict its keys, a (one-character) str itself; an
\* int, None or opaque object is not iterable.
Iterable(x) == x.kind # "scalar"

Iterate(x) ==
  IF x.kind = "dict" THEN [i \in 1..Len(x.keys) |-> Leaf("str", x.keys[i], "ok")]
  ELSE IF x.kind = "str" THEN <<Leaf("str", x.val, "ok")>>
  ELSE x.kids

\* One invocation of the user's callable: what it received, and what comes
\* back (its return value, written as the invocation itself, or its error).
Invoke(fn, how, pos, keys, vals) ==
  LET event == [how |-> how, pos |-> pos, keys |-> keys, vals |-> vals]
  IN [status |-> IF fn = "raises" THEN "FnError" ELSE "ok",
      val |-> event, events |-> <<event>>]

call_fn(fn, args) ==
  IF expand_as_args(args)
  THEN IF Iterable(args)
       THEN Invoke(fn, "args", Iterate(args), <<>>, <<>>)
       ELSE [status |-> "TypeError", val |-> <<>>, events |-> <<>>]
  ELSE IF _expand_as_kwargs(args)
  THEN Invoke(fn, "kwargs", <<>>, args.keys, args.kids)
  ELSE Invoke(fn, "single", <<args>>, <<>>, <<>>)

(* --------------------- _nested_convert_to_tensor ---------------------- *)

None == Leaf("scalar", "None", "ok")

\* The typed value tf.convert_to_tensor makes of x: an already typed value
\* is returned as it is, a container becomes one stacked tensor.
Tensor(x) ==
  IF x.kind = "tensor" THEN x
  ELSE Leaf("tensor", IF is_nested(x) THEN "stacked" ELSE x.val, "ok")

\* tf.convert_to_tensor(value, dtype): outside this module; whether it
\* succeeds, raises ValueError / TypeError or raises something else is a
\* property of the value handed in. calls records the call and its place.
convert_to_tensor(value, dtype, path) ==
  LET status == IF value.conv = "ok" THEN "ok"
                ELSE IF value.conv = "err" THEN "ConversionError"
                ELSE "FatalError"
  IN [status |-> status,
      val |-> IF status = "ok" THEN Tensor(value) ELSE None,
      calls |-> <<[path |-> path, dtype |-> dtype, status |-> status]>>]

_maybe_convertible_to_tensor(struct) ==
  ~_is_namedtuple(struct) \/ _force_leaf(struct)

\* Mutant: the shallow structure is rebuilt as a plain list.
_get_shallow_structure_as_list(struct) ==
  [struct EXCEPT !.kind = "list", !.keys = <<>>,
                 !.kids = [i \in 1..Len(struct.kids) |->
                             Leaf("scalar", "False", "ok")]]

\* nest.get_traverse_shallow_structure(lambda s: s is struct, struct): the
\* container itself with every child replaced by False.
_get_shallow_structure(struct) ==
  [struct EXCEPT !.kids = [i \in 1..Len(struct.kids) |->
                             Leaf("scalar", "False", "ok")]]

\* nest.map_structure_up_to packs the children's results into the shallow
\* structure's container.
pack_up_to(shallow, vals) == [shallow EXCEPT !.kids = vals]

RECURSIVE _nested_convert_to_tensor(_, _, _), convert_children(_, _, _)

\* The children from the i-th on, left to right; the first error ends it.
convert_children(struct, path, i) ==
  IF i > Len(struct.kids) THEN [status |-> "ok", vals |-> <<>>, calls |-> <<>>]
  ELSE LET r == _nested_convert_to_tensor(struct.kids[i], None, path \o <<i>>)
       IN IF r.status # "ok"
          THEN [status |-> r.status, vals |-> <<>>, calls |-> r.calls]
          ELSE LET rest == convert_children(struct, path, i + 1)
               IN [status |-> rest.status,
                   vals |-> <<r.val>> \o rest.vals,
                   calls |-> r.calls \o rest.calls]

\* Mutant: every error of the whole-structure attempt is swallowed, not only
\* ValueError / TypeError.
_nested_convert_to_tensor_bare_except(struct, dtype, path) ==
  IF dtype # None \/ ~is_nested(struct)
  THEN convert_to_tensor(struct, dtype, path)
  ELSE LET tried == _maybe_convertible_to_tensor(struct)
           whole == convert_to_tensor(struct, None, path)
       IN IF tried /\ whole.status = "ok"
          THEN whole
          ELSE LET kids == convert_children(struct, path, 1)
                   before == IF tried THEN whole.calls ELSE <<>>
               IN [status |-> kids.status,
                   val |-> IF kids.status = "ok"
                           THEN pack_up_to(_get_shallow_structure(struct),
                                           kids.vals)
                           ELSE None,
                   calls |-> before \o kids.calls]

_nested_convert_to_tensor(struct, dtype, path) ==
  IF dtype # None \/ ~is_nested(struct)
  THEN convert_to_tensor(struct, dtype, path)
  ELSE LET tried == _maybe_convertible_to_tensor(struct)
           whole == convert_to_tensor(struct, None, path)
       IN IF tried /\ whole.status # "ConversionError"
          THEN whole
          ELSE LET shallow_struct == _get_shallow_structure(struct)
                   kids == convert_children(struct, path, 1)
                   before == IF tried THEN whole.calls ELSE <<>>
               IN [status |-> kids.status,
                   val |-> IF kids.status = "ok"
                           THEN pack_up_to(shallow_struct, kids.vals)
                           ELSE None,
                   calls |-> before \o kids.calls]

(* ---------------------- convert_to_nested_tensor ---------------------- *)

\* nest.assert_same_structure(a, b) passes.
same_structure(a, b) == Shape(a) = Shape(b)

RECURSIVE shallow_structure_ok(_, _)

\* nest.assert_shallow_structure(shallow, input, check_types=False) passes:
\* wherever shallow is a container, input is one with as many children.
shallow_structure_ok(shallow, input) ==
  is_nested(shallow) =>
    /\ is_nested(input)
    /\ Len(input.kids) = Len(shallow.kids)
    /\ \A i \in 1..Len(shallow.kids) :
         shallow_structure_ok(shallow.kids[i], input.kids[i])

RECURSIVE flatten_up_to(_, _)

\* nest.flatten_up_to(shallow, input): the parts of input at shallow's leaves.
flatten_up_to(shallow, input) ==
  IF is_nested(shallow)
  THEN LET RECURSIVE cat(_)
           cat(i) == IF i > Len(shallow.kids) THEN <<>>
                     ELSE flatten_up_to(shallow.kids[i], input.kids[i])
                            \o cat(i + 1)
       IN cat(1)
  ELSE <<input>>

IndexName == <<"0", "1", "2", "3", "4", "5", "6">>

\* One step of a tuple path: a list index, a dict key, a namedtuple field.
PathKey(s, i) == IF s.kind = "list" THEN IndexName[i] ELSE s.keys[i]

HasTensor(value) ==
  \E i \in 1..Len(flatten(value)) : flatten(value)[i].kind = "tensor"

\* Mutant: the guard asks for every element to be typed, not for any.
convert_fn_all_typed(path, value, dtype, dtype_hint, name, allow_packing) ==
  IF /\ ~allow_packing /\ is_nested(value)
     /\ \A i \in 1..Len(flatten(value)) : flatten(value)[i].kind = "tensor"
  THEN [status |-> "ImplicitStackError", val |-> None,
        calls |-> <<[path |-> path, name |-> name,
                     status |-> "ImplicitStackError"]>>]
  ELSE LET r == convert_to_tensor(value, dtype, path)
       IN [status |-> r.status, val |-> r.val,
           calls |-> <<[path |-> path, name |-> name, status |-> r.status]>>]

\* convert_fn, with allow_packing of the enclosing call; calls holds this
\* one invocation and how it ended.
convert_fn(path, value, dtype, dtype_hint, name, allow_packing) ==
  IF ~allow_packing /\ is_nested(value) /\ HasTensor(value)
  THEN [status |-> "ImplicitStackError", val |-> None,
        calls |-> <<[path |-> path, name |-> name,
                     status |-> "ImplicitStackError"]>>]
  ELSE LET r == convert_to_tensor(value, dtype, path)
       IN [status |-> r.status, val |-> r.val,
           calls |-> <<[path |-> path, name |-> name, status |-> r.status]>>]

RECURSIVE map_structure_with_tuple_paths_up_to(_, _, _, _, _, _),
          map_parts(_, _, _, _, _, _, _)

\* The children of shallow from the i-th on; the first error ends the walk.
map_parts(shallow, value, dtype, dtype_hint, path, opt, i) ==
  IF i > Len(shallow.kids) THEN [status |-> "ok", vals |-> <<>>, calls |-> <<>>]
  ELSE LET r == map_structure_with_tuple_paths_up_to(
                  shallow.kids[i], value.kids[i], dtype.kids[i],
                  dtype_hint.kids[i], path \o <<PathKey(shallow, i)>>, opt)
       IN IF r.status # "ok"
          THEN [status |-> r.status, vals |-> <<>>, calls |-> r.calls]
          ELSE LET rest == map_parts(shallow, value, dtype, dtype_hint, path,
                                     opt, i + 1)
               IN [status |-> rest.status,
                   vals |-> <<r.val>> \o rest.vals,
                   calls |-> r.calls \o rest.calls]

\* nest.map_structure_with_tuple_paths_up_to(dtype, convert_fn, value, dtype,
\* dtype_hint, check_types=False), below the shallow-structure checks: the
\* leaves of shallow in flatten order, the results packed like shallow.
\* opt.name is <<>> (no name) or the name scope; a leaf is then named by its
\* path inside that scope.
map_structure_with_tuple_paths_up_to(shallow, value, dtype, dtype_hint, path, opt) ==
  IF ~is_nested(shallow)
  THEN convert_fn(path, value, dtype, dtype_hint,
                  IF opt.name = <<>> THEN <<>> ELSE opt.name \o path,
                  opt.allow_packing)
  ELSE LET parts == map_parts(shallow, value, dtype, dtype_hint, path, opt, 1)
       IN [status |-> parts.status,
           val |-> IF parts.status = "ok" THEN pack_up_to(shallow, parts.vals)
                   ELSE None,
           calls |-> parts.calls]

\* dtype and dtype_hint as convert_to_nested_tensor reconciles them.
Reconciled(dtype, dtype_hint) ==
  LET dtype_is_nested == is_nested(dtype)
      hint_is_nested == is_nested(dtype_hint)
  IN [dtype |-> IF ~dtype_is_nested /\ hint_is_nested
                THEN broadcast_structure(dtype_hint, dtype) ELSE dtype,
      dtype_hint |-> IF dtype_is_nested /\ ~hint_is_nested
                     THEN broadcast_structure(dtype, dtype_hint)
                     ELSE dtype_hint]

\* Mutant: nest.assert_same_structure is not called.
convert_to_nested_tensor_unchecked(value, dtype, dtype_hint, allow_packing, name) ==
  LET rec == Reconciled(dtype, dtype_hint)
      with == [dtype |-> rec.dtype, dtype_hint |-> rec.dtype_hint]
  IN IF ~is_nested(rec.dtype)
     THEN convert_fn(<<>>, value, rec.dtype, rec.dtype_hint, name,
                     allow_packing) @@ with
     ELSE IF ~(/\ shallow_structure_ok(rec.dtype, value)
               /\ shallow_structure_ok(rec.dtype, rec.dtype_hint))
     THEN [status |-> "StructureError", val |-> None, calls |-> <<>>] @@ with
     ELSE map_structure_with_tuple_paths_up_to(
            rec.dtype, value, rec.dtype, rec.dtype_hint, <<>>,
            [name |-> name, allow_packing |-> allow_packing]) @@ with

\* The result, the convert_fn invocations, and dtype / dtype_hint as they
\* stand when the conversion is driven.
convert_to_nested_tensor(value, dtype, dtype_hint, allow_packing, name) ==
  IF is_nested(dtype) /\ is_nested(dtype_hint) /\ ~same_structure(dtype, dtype_hint)
  THEN [status |-> "ShapeMismatchError", val |-> None, calls |-> <<>>,
        dtype |-> dtype, dtype_hint |-> dtype_hint]
  ELSE LET rec == Reconciled(dtype, dtype_hint)
           with == [dtype |-> rec.dtype, dtype_hint |-> rec.dtype_hint]
       IN IF ~is_nested(rec.dtype)
          THEN convert_fn(<<>>, value, rec.dtype, rec.dtype_hint, name,
                          allow_packing) @@ with
          ELSE IF ~(/\ shallow_structure_ok(rec.dtype, value)
                    /\ shallow_structure_ok(rec.dtype, rec.dtype_hint))
          THEN [status |-> "StructureError", val |-> None, calls |-> <<>>]
                 @@ with
          ELSE map_structure_with_tuple_paths_up_to(
                 rec.dtype, value, rec.dtype, rec.dtype_hint, <<>>,
                 [name |-> name, allow_packing |-> allow_packing]) @@ with

(* --------------------------- specifications --------------------------- *)

NoRet == [status |-> "none"]

PlainHeaders == { Header("list", "", FALSE, FALSE, "ok"),
                  Header("dict", "a", FALSE, FALSE, "ok"),
                  Header("nt", "a", FALSE, FALSE, "ok") }

ToStructs == Trees(MaxToNodes, {Leaf("str", "a", "ok")}, PlainHeaders)

FromStructs ==
  Trees(MaxFromNodes, {Leaf("str", "d", "ok")},
        { Header("list", "", FALSE, FALSE, "ok") })

InitBroadcast ==
  /\ pc = "ready"
  /\ call \in { [op |-> "broadcast_structure", to |-> t, from |-> f]
                : t \in ToStructs, f \in FromStructs }
  /\ ret = NoRet
  /\ trace = <<>>

\* One call of broadcast_structure(to_structure, from_structure).
BroadcastStructure ==
  /\ pc = "ready"
  /\ call.op = "broadcast_structure"
  /\ ret' = broadcast_structure(call.to, call.from)
  /\ trace' = Append(trace, [to |-> call.to, from |-> call.from,
                             ret |-> broadcast_structure(call.to, call.from)])
  /\ pc' = "done"
  /\ UNCHANGED call

\* The caller broadcasts the result again onto the same template:
\* broadcast_structure(T, broadcast_structure(T, S)).
Rebroadcast ==
  /\ pc = "done"
  /\ call.op = "broadcast_structure"
  /\ call' = [call EXCEPT !.from = ret]
  /\ ret' = broadcast_structure(call.to, ret)
  /\ trace' = Append(trace, [to |-> call.to, from |-> ret,
                             ret |-> broadcast_structure(call.to, ret)])
  /\ pc' = "again"

NextBroadcast == BroadcastStructure \/ Rebroadcast

SpecBroadcast == InitBroadcast /\ [][NextBroadcast]_vars

ForestsUpTo(m, L, H) == UNION { Forest(j, L, H) : j \in 0..m }

\* The args of call_fn: any kind at the root, with or without each marker.
CallArgs ==
  { WithKids(Header(k, IF k = "list" THEN "" ELSE "a", l, a, "ok"), f)
    : k \in NestKinds, l \in BOOLEAN, a \in BOOLEAN,
      f \in ForestsUpTo(MaxArgNodes - 1, {Leaf("scalar", "v", "ok")},
                        PlainHeaders) }
  \cup
  { [Leaf(k, "v", "ok") EXCEPT !.fl = l, !.fa = a]
    : k \in {"scalar", "str"}, l \in BOOLEAN, a \in BOOLEAN }

InitCall ==
  /\ pc = "ready"
  /\ call \in { [op |-> "call_fn", fn |-> f, args |-> a]
                : f \in {"returns", "raises"}, a \in CallArgs }
  /\ ret = NoRet
  /\ trace = <<>>

\* One call of call_fn(fn, args); trace collects the invocations of fn.
CallFn ==
  /\ pc = "ready"
  /\ call.op = "call_fn"
  /\ LET r == call_fn(call.fn, call.args)
     IN /\ ret' = [status |-> r.status, val |-> r.val]
        /\ trace' = r.events
  /\ pc' = "done"
  /\ UNCHANGED call

NextCall == CallFn

SpecCall == InitCall /\ [][NextCall]_vars

\* What tf.convert_to_tensor does with a container is read only where it is
\* tried, so a namedtuple without the force-leaf marker carries one value.
ConvertHeaders ==
  ({ Header(k, IF k = "list" THEN "" ELSE "a", l, FALSE, c)
     : k \in NestKinds, l \in BOOLEAN, c \in {"ok", "err"} }
   \ { Header("nt", "a", FALSE, FALSE, "ok") })
  \cup { Header("list", "", FALSE, FALSE, "fatal") }

ConvertLeaves == { Leaf("scalar", "1", c) : c \in {"ok", "err"} }

InitConvert ==
  /\ pc = "ready"
  /\ \E n \in 1..MaxStructNodes :
       \E s \in TreeN(MaxStructNodes + 1 - n, ConvertLeaves, ConvertHeaders) :
         \E d \in {None, Leaf("scalar", "int32", "ok")} :
           call = [op |-> "_nested_convert_to_tensor", struct |-> s, dtype |-> d]
  /\ ret = NoRet
  /\ trace = <<>>

\* One call of _nested_convert_to_tensor(struct, dtype); trace collects the
\* calls of tf.convert_to_tensor, in order.
NestedConvertToTensor ==
  /\ pc = "ready"
  /\ call.op = "_nested_convert_to_tensor"
  /\ LET r == _nested_convert_to_tensor(call.struct, call.dtype, <<>>)
     IN /\ ret' = [status |-> r.status, val |-> r.val]
        /\ trace' = r.calls
  /\ pc' = "done"
  /\ UNCHANGED call

NextConvert == NestedConvertToTensor

SpecConvert == InitConvert /\ [][NextConvert]_vars

DtypeLeaf == Leaf("scalar", "float32", "ok")

DtypeHeaders == { Header("list", "", FALSE, FALSE, "ok"),
                  Header("dict", "a", FALSE, FALSE, "ok"),
                  Header("dict", "x", FALSE, FALSE, "ok") }

ListHeader == Header("list", "", FALSE, FALSE, "ok")

ValueLeaves == { Leaf("scalar", "1", "ok"), Leaf("scalar", "1", "err"),
                 Leaf("tensor", "T1", "ok") }

Options == [allow_packing : BOOLEAN, name : {<<>>, <<"n">>}]

NestedCall(v, d, h, o) ==
  [op |-> "convert_to_nested_tensor", value |-> v, dtype |-> d,
   dtype_hint |-> h, allow_packing |-> o.allow_packing, name |-> o.name]

\* dtype and dtype_hint both drawn; the value has the structure of the
\* nested one of them (of dtype when both are) and holds no typed element,
\* so allow_packing is never read.
InitReconcile ==
  \E d \in Trees(MaxDtypeNodes, {DtypeLeaf}, DtypeHeaders) :
    \E h \in Trees(MaxHintNodes, {None}, DtypeHeaders) :
      \E o \in { p \in Options : ~p.allow_packing } :
        \E swap \in BOOLEAN :
          LET dt == IF swap THEN h ELSE d
              hi == IF swap THEN d ELSE h
              like == IF is_nested(dt) THEN dt ELSE hi
          IN call = NestedCall(map_structure_const(Leaf("scalar", "1", "ok"), like),
                               dt, hi, o)

\* The value drawn, with a stack of lists given as dtype or as dtype_hint.
InitGuard ==
  \E d \in Trees(MaxDtypeNodes, {None}, {ListHeader}) :
    \E n \in 1..MaxValueNodes :
      \E v \in TreeN(MaxValueNodes + 1 - n, ValueLeaves, {ListHeader}) :
        \E o \in Options :
          \E swap \in BOOLEAN :
            call = NestedCall(v, IF swap THEN None ELSE d,
                              IF swap THEN d ELSE None, o)

InitNested ==
  /\ pc = "ready"
  /\ InitReconcile \/ InitGuard
  /\ ret = NoRet
  /\ trace = <<>>

\* One call of convert_to_nested_tensor; trace collects the invocations of
\* convert_fn, in order.
ConvertToNestedTensor ==
  /\ pc = "ready"
  /\ call.op = "convert_to_nested_tensor"
  /\ LET r == convert_to_nested_tensor(call.value, call.dtype, call.dtype_hint,
                                       call.allow_packing, call.name)
     IN /\ ret' = [status |-> r.status, val |-> r.val,
                   dtype |-> r.dtype, dtype_hint |-> r.dtype_hint]
        /\ trace' = r.calls
  /\ pc' = "done"
  /\ UNCHANGED call

NextNested == ConvertToNestedTensor

SpecNested == InitNested /\ [][NextNested]_vars

(* --------------------- claims: broadcast_structure -------------------- *)

AllLeaves(s, leaf) == \A i \in 1..Len(flatten(s)) : flatten(s)[i] = leaf

\* C1: whenever from_structure flattens to exactly one leaf L, the result of
\* broadcast_structure has the Shape of to_structure and every leaf position
\* of the result holds L.
C1_SingletonIsTiled ==
  \A i \in 1..Len(trace) :
    Len(flatten(trace[i].from)) = 1 =>
      /\ Shape(trace[i].ret) = Shape(trace[i].to)
      /\ AllLeaves(trace[i].ret, flatten(trace[i].from)[1])

\* A nested singleton source tiled over a nested template with several leaves.
C1_Witness ==
  /\ pc = "done"
  /\ is_nested(call.from) /\ Len(flatten(call.from)) = 1
  /\ is_nested(call.to) /\ Len(flatten(call.to)) = 3
  /\ Len(flatten(ret)) = 3

\* C6: for every pair of structures, also when from_structure flattens to
\* zero or to several leaves, the result has the Shape of to_structure.
C6_ResultHasTemplateShape ==
  \A i \in 1..Len(trace) : Shape(trace[i].ret) = Shape(trace[i].to)

\* C8: for a source S that flattens to exactly one leaf,
\* broadcast_structure(T, broadcast_structure(T, S)) equals
\* broadcast_structure(T, S), whatever the Shape of T.
C8_BroadcastIdempotent ==
  (pc = "again" /\ Len(flatten(trace[1].from)) = 1) =>
    trace[2].ret = trace[1].ret

\* The second broadcast tiles again: T holds exactly one leaf inside a
\* container, so the first result is itself a singleton.
C8_Witness ==
  /\ pc = "again"
  /\ Len(flatten(trace[1].from)) = 1
  /\ is_nested(trace[1].to) /\ Len(flatten(trace[1].to)) = 1
  /\ trace[2].from = trace[1].ret
  /\ trace[2].ret # trace[1].from

(* --------------------------- claims: call_fn -------------------------- *)

\* The convention the claim C2 names for args.
ClaimedConvention(args) ==
  IF IsSequence(args) /\ ~_is_namedtuple(args) /\ ~_force_leaf(args) THEN "args"
  ELSE IF IsMapping(args) /\ ~_force_leaf(args) THEN "kwargs"
  ELSE "single"

\* What fn receives under a convention.
Received(how, args) ==
  [how |-> how,
   pos |-> IF how = "args" THEN Iterate(args)
           ELSE IF how = "single" THEN <<args>> ELSE <<>>,
   keys |-> IF how = "kwargs" THEN args.keys ELSE <<>>,
   vals |-> IF how = "kwargs" THEN args.kids ELSE <<>>]

InvokedOnceAs(how) ==
  /\ trace = <<Received(how, call.args)>>
  /\ ret = [status |-> IF call.fn = "raises" THEN "FnError" ELSE "ok",
            val |-> trace[1]]

C7_ForceLeafFirst ==
  (pc = "done" /\ _force_leaf(call.args)) =>
    /\ ~expand_as_args(call.args)
    /\ ~_expand_as_kwargs(call.args)
    /\ InvokedOnceAs("single")

(* ------------------ claims: _nested_convert_to_tensor ----------------- *)

Untagged == pc = "done" /\ call.dtype = None

\* C3 as stated: converted with no type tag, the output has the same Shape
\* as the input, at every level.
C3_Original ==
  (Untagged /\ ret.status = "ok") => Shape(ret.val) = Shape(call.struct)

\* The whole-structure conversion of v is attempted and succeeds.
WholeConverts(v) == _maybe_convertible_to_tensor(v) /\ v.conv = "ok"

RECURSIVE ShapeKeptUpToStacking(_, _)

ShapeKeptUpToStacking(out, v) ==
  IF ~is_nested(v) \/ WholeConverts(v)
  THEN out.kind = "tensor"
  ELSE /\ out.kind = v.kind
       /\ out.keys = v.keys
       /\ Len(out.kids) = Len(v.kids)
       /\ \A i \in 1..Len(v.kids) :
            ShapeKeptUpToStacking(out.kids[i], v.kids[i])

RECURSIVE NothingConvertsWhole(_)

NothingConvertsWhole(v) ==
  is_nested(v) =>
    /\ ~WholeConverts(v)
    /\ \A i \in 1..Len(v.kids) : NothingConvertsWhole(v.kids[i])

\* C3 amended: converted with no type tag, the output has the Shape of the
\* input except that every sub-structure whose whole-structure conversion
\* is attempted and succeeds is replaced by one typed value; the Shape is
\* the input's when no container of the input converts as a whole.
C3_ShapeUpToStacking ==
  (Untagged /\ ret.status = "ok") =>
    /\ ShapeKeptUpToStacking(ret.val, call.struct)
    /\ NothingConvertsWhole(call.struct) =>
         Shape(ret.val) = Shape(call.struct)

\* A mapping that does not convert as a whole, holding a list that does: the
\* mapping is kept, the list has become one typed value.
C3_Witness ==
  /\ Untagged /\ ret.status = "ok"
  /\ call.struct.kind = "dict" /\ Len(call.struct.kids) = 2
  /\ call.struct.kids[1].kind = "list" /\ WholeConverts(call.struct.kids[1])
  /\ ret.val.kind = "dict" /\ ret.val.kids[1].kind = "tensor"
  /\ Shape(ret.val) # Shape(call.struct)

WholeCall(s) ==
  [path |-> <<>>, dtype |-> None,
   status |-> IF s.conv = "ok" THEN "ok"
              ELSE IF s.conv = "err" THEN "ConversionError" ELSE "FatalError"]

ChildRun(s, i) == _nested_convert_to_tensor(s.kids[i], None, <<i>>)

\* The children before the first one that fails, and that one.
Visited(s) ==
  { i \in 1..Len(s.kids) :
      \A j \in 1..(i - 1) : ChildRun(s, j).status = "ok" }

RECURSIVE CallsOf(_, _)

CallsOf(s, i) ==
  IF i \notin Visited(s) THEN <<>>
  ELSE ChildRun(s, i).calls \o CallsOf(s, i + 1)

\* C9: for a container and no type tag, the whole-structure conversion is
\* attempted first (not for a namedtuple without force-leaf); its success is
\* the result and no child is visited; its ValueError / TypeError, and
\* nothing else, makes the engine convert each child by the same algorithm
\* and pack the results in the original container; an error of a child, or
\* another error of the whole attempt, is the caller's.
C9_FallbackRecursion ==
  (Untagged /\ is_nested(call.struct)) =>
    LET s == call.struct
        tried == ~_is_namedtuple(s) \/ _force_leaf(s)
        first == IF tried THEN <<WholeCall(s)>> ELSE <<>>
    IN IF tried /\ s.conv = "ok"
       THEN trace = first /\ ret = [status |-> "ok", val |-> Tensor(s)]
       ELSE IF tried /\ s.conv = "fatal"
       THEN trace = first /\ ret.status = "FatalError"
       ELSE /\ trace = first \o CallsOf(s, 1)
            /\ IF \A i \in 1..Len(s.kids) : ChildRun(s, i).status = "ok"
               THEN /\ ret.status = "ok"
                    /\ ret.val.kind = s.kind /\ ret.val.keys = s.keys
                    /\ ret.val.kids =
                         [i \in 1..Len(s.kids) |-> ChildRun(s, i).val]
               ELSE \E k \in Visited(s) :
                      /\ ChildRun(s, k).status # "ok"
                      /\ ret.status = ChildRun(s, k).status

\* The whole attempt failed with a conversion error, the first child was
\* converted and the second child's error ended the call.
C9_Witness ==
  /\ Untagged /\ call.struct.kind = "list" /\ call.struct.conv = "err"
  /\ Len(call.struct.kids) = 2
  /\ Len(trace) = 3 /\ trace[1] = WholeCall(call.struct)
  /\ trace[2].status = "ok" /\ trace[3].status = "ConversionError"
  /\ ret.status = "ConversionError"

\* C10: a list or dict carrying the force-leaf marker, converted with no
\* type tag, is converted as one unit: tf.convert_to_tensor is called on it
\* alone, and its conversion error is the caller's, the children are not
\* converted one by one.
C10_ForceLeafNotRecursed ==
  (Untagged /\ call.struct.kind \in {"list", "dict"} /\ _force_leaf(call.struct)) =>
    /\ trace = <<WholeCall(call.struct)>>
    /\ call.struct.conv = "err" => ret.status = "ConversionError"

(* ------------------ claims: convert_to_nested_tensor ------------------ *)

BothNested == is_nested(call.dtype) /\ is_nested(call.dtype_hint)

\* C4: when dtype and dtype_hint are both nested and their Shapes differ the
\* call fails with the Shape Mismatch Error before anything is converted;
\* when exactly one is nested the other is broadcast to its Shape; so
\* whenever convert_fn runs with one of them nested, dtype and dtype_hint
\* have the same Shape.
C4_Reconciliation ==
  pc = "done" =>
    /\ (BothNested /\ Shape(call.dtype) # Shape(call.dtype_hint)) =>
         (ret.status = "ShapeMismatchError" /\ trace = <<>>)
    /\ (is_nested(call.dtype) /\ ~is_nested(call.dtype_hint)) =>
         /\ ret.dtype = call.dtype
         /\ Shape(ret.dtype_hint) = Shape(call.dtype)
         /\ AllLeaves(ret.dtype_hint, call.dtype_hint)
    /\ (~is_nested(call.dtype) /\ is_nested(call.dtype_hint)) =>
         /\ ret.dtype_hint = call.dtype_hint
         /\ Shape(ret.dtype) = Shape(call.dtype_hint)
         /\ AllLeaves(ret.dtype, call.dtype)
    /\ (trace # <<>> /\ (is_nested(call.dtype) \/ is_nested(call.dtype_hint))) =>
         Shape(ret.dtype) = Shape(ret.dtype_hint)

\* Only dtype_hint is nested, a dict holding a list: dtype was broadcast
\* onto it and the leaf was converted.
C4_Witness ==
  /\ pc = "done"
  /\ ~is_nested(call.dtype) /\ call.dtype_hint.kind = "dict"
  /\ Len(call.dtype_hint.kids) = 1 /\ call.dtype_hint.kids[1].kind = "list"
  /\ Len(flatten(call.dtype_hint)) = 1
  /\ ret.dtype # call.dtype /\ Shape(ret.dtype) = Shape(call.dtype_hint)
  /\ Len(trace) = 1 /\ ret.status = "ok"

\* The reconciliation went through and value has a part at every leaf
\* position of dtype.
Driven ==
  /\ pc = "done"
  /\ ret.status # "ShapeMismatchError"
  /\ shallow_structure_ok(ret.dtype, call.value)

\* The parts of value at the leaf positions of the reconciled dtype, in
\* flatten order (the whole value when dtype is not nested).
Parts == flatten_up_to(ret.dtype, call.value)

Offending(k) == is_nested(Parts[k]) /\ HasTensor(Parts[k])

NoImplicitStackError ==
  /\ ret.status # "ImplicitStackError"
  /\ \A j \in 1..Len(trace) : trace[j].status # "ImplicitStackError"

Stacked(k) ==
  ret.status = "ok" =>
    flatten_up_to(ret.dtype, ret.val)[k] = Leaf("tensor", "stacked", "ok")

\* C5 as stated: at every leaf position of the reconciled dtype, with
\* allow_packing false a part of value that is a container holding a typed
\* element makes the call fail with the Implicit-Stack Error; with
\* allow_packing true the guard rejects nothing and the part becomes one
\* stacked typed value.
C5_Original ==
  Driven =>
    \A k \in 1..Len(Parts) :
      Offending(k) =>
        IF call.allow_packing THEN NoImplicitStackError /\ Stacked(k)
        ELSE ret.status = "ImplicitStackError"

\* C5 amended: with allow_packing false such a part makes the call fail and
\* return no result, with the Implicit-Stack Error unless an earlier leaf
\* position (in flatten order) has already failed with its own error; with
\* allow_packing true the guard rejects nothing and, when the call
\* succeeds, the part has become one stacked typed value.
C5_StackingGuard ==
  Driven =>
    \A k \in 1..Len(Parts) :
      Offending(k) =>
        IF call.allow_packing THEN NoImplicitStackError /\ Stacked(k)
        ELSE /\ ret.status # "ok"
             /\ \/ ret.status = "ImplicitStackError"
                \/ \E j \in 1..(k - 1) :
                     /\ j = Len(trace)
                     /\ trace[j].status \notin {"ok", "ImplicitStackError"}
                     /\ ret.status = trace[j].status

\* The guard fired at the second leaf position of a nested dtype, after the
\* first leaf was converted.
C5_Witness ==
  /\ Driven /\ ~call.allow_packing
  /\ is_nested(ret.dtype) /\ Len(Parts) = 2
  /\ ~is_nested(Parts[1]) /\ Offending(2)
  /\ Len(trace) = 2 /\ trace[1].status = "ok"
  /\ trace[2].status = "ImplicitStackError"
  /\ ret.status = "ImplicitStackError"

====
